---- MODULE Spec2Model ----
(* A model of muso (libmuso): the format-string parser, the path builder,   *)
(* the sorter (sort_folder / sort_file), the watch loop and the sort        *)
(* command of the binary.                                                   *)
(*                                                                          *)
(* Text (format strings, tag values, file names) is a sequence of           *)
(* one-character strings; a path is a sequence of components, each a text;  *)
(* an absolute path starts with the component RootDir.                      *)
EXTENDS Integers, Sequences, FiniteSets, TLC

VARIABLES
    bp,         \* the path builder: phase, format source, parsed format, metadata, flag, result
    tree,       \* the filesystem: regular files and directories
    stack,      \* sort_folder: the explicit stack of paths
    sreport,    \* sort_folder: the SortReport
    pc,         \* sort_folder: "loop" while the stack is worked, "done" once it returned
    opts,       \* the Options of the call
    start,      \* the directory sort_folder was started on
    hist,       \* what happened so far (the initial tree, the calls of sort_file)
    cli,        \* the sort command: arguments, configuration, position, result
    watch       \* the watcher: its fields, the channel of events, what it did last

------------------------------------------------------------------------------
(* Text helpers                                                             *)

StartsWith(s, p) == Len(p) <= Len(s) /\ SubSeq(s, 1, Len(p)) = p

SeqDrop(s, n) == SubSeq(s, n + 1, Len(s))

Digits == <<"0", "1", "2", "3", "4", "5", "6", "7", "8", "9">>

IsDigit(c) == \E i \in 1..Len(Digits) : Digits[i] = c

DigitVal(c) == (CHOOSE i \in 1..Len(Digits) : Digits[i] = c) - 1

RECURSIVE DecValue(_)
DecValue(ds) ==
    IF ds = <<>> THEN 0
    ELSE 10 * DecValue(SubSeq(ds, 1, Len(ds) - 1)) + DigitVal(ds[Len(ds)])

\* u32::to_string
RECURSIVE DecStr(_)
DecStr(n) ==
    IF n < 10 THEN <<Digits[n + 1]>>
    ELSE DecStr(n \div 10) \o <<Digits[(n % 10) + 1]>>

\* number of leading characters of s that satisfy IsDigit
RECURSIVE DigitRun(_)
DigitRun(s) ==
    IF s # <<>> /\ IsDigit(s[1]) THEN 1 + DigitRun(Tail(s)) ELSE 0

\* str::split(sep): the parts between the separators, at least one part
RECURSIVE Split(_, _)
Split(s, sep) ==
    IF \A i \in 1..Len(s) : s[i] # sep THEN <<s>>
    ELSE LET At(k) == <<SubSeq(s, 1, k - 1)>> \o Split(SeqDrop(s, k), sep)
         IN At(CHOOSE i \in 1..Len(s) :
                   /\ s[i] = sep
                   /\ \A j \in 1..(i - 1) : s[j] # sep)

------------------------------------------------------------------------------
(* format/parser.rs                                                         *)

U8Max == 255

None == [some |-> FALSE, v |-> <<>>]
Some(x) == [some |-> TRUE, v |-> x]

Tag(name, leading) == [name |-> name, leading |-> leading]

\* impl From<&str> for Tag
TagFrom(ident) ==
    CASE ident = <<"a", "r", "t", "i", "s", "t">> -> Tag("artist", 0)
      [] ident = <<"a", "l", "b", "u", "m">>      -> Tag("album", 0)
      [] ident = <<"d", "i", "s", "c">>           -> Tag("disc", 0)
      [] ident = <<"d", "i", "s", "k">>           -> Tag("disc", 0)
      [] ident = <<"t", "r", "a", "c", "k">>      -> Tag("track", 0)
      [] ident = <<"t", "i", "t", "l", "e">>      -> Tag("title", 0)
      [] ident = <<"e", "x", "t">>                -> Tag("ext", 0)

Required(tag) == [optional |-> FALSE, tag |-> tag]
Optional(tag) == [optional |-> TRUE, tag |-> tag]

is_optional(p) == p.optional
is_tag(p, name) == p.tag.name = name
into_tag(p) == p.tag

NoPlaceholder == Required(Tag("none", 0))
BasicString(s) == [kind |-> "String", s |-> s, p |-> NoPlaceholder]
BasicPlaceholder(p) == [kind |-> "Placeholder", s |-> <<>>, p |-> p]

FsDir(comps) == [kind |-> "Dir", comps |-> comps]
FsFile(comps) == [kind |-> "File", comps |-> comps]

\* a nom result: ok (with the rest of the input and the output), a
\* recoverable error, or a panic unwinding through the parser
POk(rest, out) == [ok |-> TRUE, panic |-> FALSE, rest |-> rest, out |-> out]
PErr == [ok |-> FALSE, panic |-> FALSE, rest |-> <<>>, out |-> <<>>]
PPanic == [ok |-> FALSE, panic |-> TRUE, rest |-> <<>>, out |-> <<>>]

TagIdents ==
    << <<"e", "x", "t">>, <<"d", "i", "s", "c">>, <<"d", "i", "s", "k">>,
       <<"t", "r", "a", "c", "k">>, <<"t", "i", "t", "l", "e">>,
       <<"a", "l", "b", "u", "m">>, <<"a", "r", "t", "i", "s", "t">> >>

\* alt((tag("ext"), ...)): the first identifier that the input starts with
tag_ident(input) ==
    LET First(hits) ==
            IF hits = {} THEN PErr
            ELSE LET Pick(i) == POk(SeqDrop(input, Len(TagIdents[i])), TagIdents[i])
                 IN Pick(CHOOSE h \in hits : \A g \in hits : h <= g)
    IN First({i \in 1..Len(TagIdents) : StartsWith(input, TagIdents[i])})

tag_leading(input) ==
    IF Len(input) >= 2 /\ input[1] = ":" /\ IsDigit(input[2])
    THEN LET Parsed(n, v) ==
                 IF v > U8Max THEN PPanic      \* n.parse().unwrap()
                 ELSE POk(SeqDrop(input, n + 1), v)
             Taken(n) == Parsed(n, DecValue(SubSeq(input, 2, n + 1)))
         IN Taken(DigitRun(Tail(input)))
    ELSE POk(input, 0)

tag_complete(input) ==
    LET Leading(t, l) == IF ~l.ok THEN l ELSE POk(l.rest, Tag(t.name, l.out))
        Named(r, t) == IF t.name \in {"disc", "track"}
                       THEN Leading(t, tag_leading(r.rest))
                       ELSE POk(r.rest, t)
        Ident(r) == IF ~r.ok THEN r ELSE Named(r, TagFrom(r.out))
    IN Ident(tag_ident(input))

placeholder(input) ==
    LET Complete(r) ==
            IF ~r.ok THEN r
            ELSE IF r.out.name = "ext" THEN POk(r.rest, Required(r.out))
            ELSE IF r.rest # <<>> /\ r.rest[1] = "?"
                 THEN POk(Tail(r.rest), Optional(r.out))
                 ELSE POk(r.rest, Required(r.out))
    IN Complete(tag_complete(input))

\* take_till1(|c| c == '{')
TakeTill1(input) ==
    LET Take(n) == IF n = 0 THEN PErr
                   ELSE POk(SeqDrop(input, n), SubSeq(input, 1, n))
        Upto(stops) == Take(IF stops = {} THEN Len(input)
                            ELSE (CHOOSE i \in stops : \A j \in stops : i <= j) - 1)
    IN Upto({i \in 1..Len(input) : input[i] = "{"})

component(input) ==
    LET Delimited(p) ==
            IF ~p.ok THEN p
            ELSE IF p.rest = <<>> \/ p.rest[1] # "}" THEN PErr
            ELSE POk(Tail(p.rest), BasicPlaceholder(p.out))
        Alt(t) ==
            IF t.ok THEN POk(t.rest, BasicString(t.out))
            ELSE IF input = <<>> \/ input[1] # "{" THEN PErr
            ELSE Delimited(placeholder(Tail(input)))
    IN Alt(TakeTill1(input))

\* many1(component): the accumulated components and the unparsed rest
RECURSIVE Many(_, _)
Many(input, acc) ==
    LET One(r) ==
            IF r.panic THEN r
            ELSE IF ~r.ok THEN (IF acc = <<>> THEN PErr ELSE POk(input, acc))
            ELSE Many(r.rest, Append(acc, r.out))
    IN One(component(input))

components(input) == Many(input, <<>>)

FailedToParse == [kind |-> "FailedToParse", tag |-> ""]
OptionalInDir == [kind |-> "OptionalInDir", tag |-> ""]
RequiredInFile == [kind |-> "RequiredInFile", tag |-> ""]
NotSupported == [kind |-> "NotSupported", tag |-> ""]
IoError == [kind |-> "IoError", tag |-> ""]
InvalidParent == [kind |-> "InvalidParent", tag |-> ""]
InvalidRoot == [kind |-> "InvalidRoot", tag |-> ""]
MissingTag(tag) == [kind |-> "MissingTag", tag |-> tag]
Panicked == [kind |-> "panic", tag |-> ""]
NoError == [kind |-> "", tag |-> ""]

Ok(v) == [ok |-> TRUE, err |-> NoError, v |-> v]
Err(e) == [ok |-> FALSE, err |-> e, v |-> <<>>]

parse_format_string(input) ==
    LET Parsed(r) ==
            IF r.panic THEN Err(Panicked)
            ELSE IF ~r.ok THEN Err(FailedToParse)
            ELSE IF r.rest # <<>> THEN Err(FailedToParse)
            ELSE Ok(r.out)
    IN Parsed(components(input))

------------------------------------------------------------------------------
(* format.rs                                                                *)

ParsedFormat(fs_components, orig_string) ==
    [fs_components |-> fs_components, orig_string |-> orig_string]

\* the parts of one literal but the last: each closes a Dir segment
RECURSIVE DrainParts(_, _, _, _)
DrainParts(parts, i, fs_component, fs_components) ==
    IF i >= Len(parts)
    THEN [fs_component |-> fs_component, fs_components |-> fs_components]
    ELSE DrainParts(parts, i + 1, <<>>,
                    Append(fs_components,
                           FsDir(IF parts[i] # <<>>
                                 THEN Append(fs_component, BasicString(parts[i]))
                                 ELSE fs_component)))

RECURSIVE Segment(_, _, _, _)
Segment(basic, i, fs_component, fs_components) ==
    IF i > Len(basic)
    THEN IF fs_component # <<>>
         THEN Append(fs_components, FsFile(fs_component))
         ELSE fs_components
    ELSE IF basic[i].kind = "String"
         THEN LET Last(d, last) ==
                      Segment(basic, i + 1,
                              IF last # <<>>
                              THEN Append(d.fs_component, BasicString(last))
                              ELSE d.fs_component,
                              d.fs_components)
                  Parts(splitted) ==
                      Last(DrainParts(splitted, 1, fs_component, fs_components),
                           splitted[Len(splitted)])
              IN Parts(Split(basic[i].s, "/"))
         ELSE Segment(basic, i + 1, Append(fs_component, basic[i]), fs_components)

\* impl FromStr for ParsedFormat
from_str(s) ==
    LET Components(basic) ==
            IF ~basic.ok THEN basic
            ELSE Ok(ParsedFormat(Segment(basic.v, 1, <<>>, <<>>), s))
    IN Components(parse_format_string(s))

RECURSIVE Concat(_)
Concat(ts) == IF ts = <<>> THEN <<>> ELSE Head(ts) \o Concat(Tail(ts))

\* a variant of serialize: the text is rendered again from the structure
SerializeFromStructure(format) ==
    LET TagText(tag) ==
            <<tag.name>>
            \o (IF tag.leading > 0 THEN <<":">> \o DecStr(tag.leading) ELSE <<>>)
        CompText(c) ==
            IF c.kind = "String" THEN c.s
            ELSE <<"{">> \o TagText(c.p.tag)
                 \o (IF c.p.optional THEN <<"?">> ELSE <<>>) \o <<"}">>
        SegText(seg) ==
            Concat([i \in 1..Len(seg.comps) |-> CompText(seg.comps[i])])
            \o (IF seg.kind = "Dir" THEN <<"/">> ELSE <<>>)
    IN Concat([k \in 1..Len(format.fs_components) |->
                  SegText(format.fs_components[k])])

\* impl Serialize for ParsedFormat
serialize(format) == format.orig_string

ExfatChars == {"/", "\"", "*", ":", "<", ">", "\\", "?", "|"}

\* a variant of replace: nothing is replaced unless exfat_compat is set
ReplaceOnlyExfat(string, exfat_compat) ==
    [i \in 1..Len(string) |->
        IF exfat_compat /\ string[i] \in ExfatChars THEN "_" ELSE string[i]]

replace(string, exfat_compat) ==
    [i \in 1..Len(string) |->
        IF exfat_compat
        THEN (IF string[i] \in ExfatChars THEN "_" ELSE string[i])
        ELSE (IF string[i] = "/" THEN "_" ELSE string[i])]

\* a variant of add_leading_zeros: the zeros are prepended whatever the
\* length of the string
AddZerosAlways(string, leading) == [i \in 1..leading |-> "0"] \o string

add_leading_zeros(string, leading) ==
    IF leading > Len(string)
    THEN [i \in 1..(leading - Len(string)) |-> "0"] \o string
    ELSE string

\* Metadata::get_artist .. get_title (impl_tag_getter)
tag_getter(metadata, name) ==
    LET Get(field) == IF field.some THEN Ok(field.v) ELSE Err(MissingTag(name))
    IN Get(CASE name = "artist" -> metadata.artist
                   [] name = "album"  -> metadata.album
                   [] name = "title"  -> metadata.title
                   [] name = "disc"   -> IF metadata.disc.some
                                         THEN Some(DecStr(metadata.disc.v))
                                         ELSE None
                   [] name = "track"  -> IF metadata.track.some
                                         THEN Some(DecStr(metadata.track.v))
                                         ELSE None)

\* a variant of get_ext: the extension with its leading dot
GetExtWithDot(metadata) == <<".">> \o metadata.ext

get_ext(metadata) == metadata.ext

\* a variant of get_from_metadata: an absent tag is an error for an
\* Optional placeholder as it is for a Required one
GetFromMetadataStrict(metadata, pholder) ==
    LET Match(tag, r) ==
            IF r.ok
            THEN IF tag.name \in {"disc", "track"}
                 THEN Ok(Some(add_leading_zeros(r.v, tag.leading)))
                 ELSE Ok(Some(r.v))
            ELSE r
        OfTag(tag) ==
            IF tag.name = "ext" THEN Ok(Some(metadata.ext))
            ELSE Match(tag, tag_getter(metadata, tag.name))
    IN OfTag(pholder.tag)

\* a variant of get_from_metadata: an absent tag yields None for a Required
\* placeholder as it does for an Optional one
GetFromMetadataLenient(metadata, pholder) ==
    LET Match(tag, r) ==
            IF r.ok
            THEN IF tag.name \in {"disc", "track"}
                 THEN Ok(Some(add_leading_zeros(r.v, tag.leading)))
                 ELSE Ok(Some(r.v))
            ELSE Ok(None)
        OfTag(tag) ==
            IF tag.name = "ext" THEN Ok(Some(metadata.ext))
            ELSE Match(tag, tag_getter(metadata, tag.name))
    IN OfTag(pholder.tag)

\* Ok(Some(text)), Ok(None) or Err(MissingTag)
get_from_metadata(metadata, pholder) ==
    LET Match(tag, r) ==
            IF r.ok
            THEN IF tag.name \in {"disc", "track"}
                 THEN Ok(Some(add_leading_zeros(r.v, tag.leading)))
                 ELSE Ok(Some(r.v))
            ELSE IF is_optional(pholder) THEN Ok(None)
            ELSE r
        OfTag(tag) ==
            IF tag.name = "ext" THEN Ok(Some(get_ext(metadata)))
            ELSE Match(tag, tag_getter(metadata, tag.name))
    IN OfTag(into_tag(pholder))

\* a variant of DirValue: an absent Optional contributes nothing to a Dir
\* segment, as it does in the File segment
DirValueSkipsAbsent(value) == IF value.some THEN Ok(value.v) ELSE Ok(<<>>)

\* .ok_or_else(|| Error::OptionalInDir) on the Option that
\* get_from_metadata yields for a placeholder of a Dir segment
DirValue(value) == IF value.some THEN Ok(value.v) ELSE Err(OptionalInDir)

\* one Dir segment, from component i on: the path so far or the error
RECURSIVE BuildDir(_, _, _, _, _)
BuildDir(dir, i, metadata, exfat_compat, path) ==
    IF i > Len(dir) THEN Ok(path \o <<"/">>)
    ELSE IF dir[i].kind = "String"
         THEN BuildDir(dir, i + 1, metadata, exfat_compat, path \o dir[i].s)
         ELSE LET Pushed(s) ==
                      IF ~s.ok THEN s
                      ELSE BuildDir(dir, i + 1, metadata, exfat_compat,
                                    path \o replace(s.v, exfat_compat))
                  Value(r) == IF ~r.ok THEN r ELSE Pushed(DirValue(r.v))
              IN Value(get_from_metadata(metadata, dir[i].p))

\* a variant of CountsAsRequired: every placeholder but Ext is counted
CountsOptionalToo(p) == ~is_tag(p, "ext")

\* a placeholder that the File segment counts: Required and not Ext
CountsAsRequired(p) == ~is_optional(p) /\ ~is_tag(p, "ext")

\* one File segment, from component i on
RECURSIVE BuildFile(_, _, _, _, _, _)
BuildFile(file, i, metadata, exfat_compat, path, required_founds) ==
    IF i > Len(file)
    THEN IF required_founds < 1 THEN Err(RequiredInFile) ELSE Ok(path)
    ELSE IF file[i].kind = "String"
         THEN BuildFile(file, i + 1, metadata, exfat_compat, path \o file[i].s,
                        required_founds)
         ELSE LET Value(n, r) ==
                      IF ~r.ok THEN r
                      ELSE BuildFile(file, i + 1, metadata, exfat_compat,
                                     IF r.v.some
                                     THEN path \o replace(r.v.v, exfat_compat)
                                     ELSE path,
                                     n)
              IN Value(IF CountsAsRequired(file[i].p)
                       THEN required_founds + 1
                       ELSE required_founds,
                       get_from_metadata(metadata, file[i].p))

RECURSIVE BuildFrom(_, _, _, _, _)
BuildFrom(fs_components, k, metadata, exfat_compat, path) ==
    IF k > Len(fs_components) THEN Ok(path)
    ELSE LET Built(r) ==
                 IF ~r.ok THEN r
                 ELSE BuildFrom(fs_components, k + 1, metadata, exfat_compat, r.v)
         IN Built(IF fs_components[k].kind = "Dir"
                  THEN BuildDir(fs_components[k].comps, 1, metadata, exfat_compat, path)
                  ELSE BuildFile(fs_components[k].comps, 1, metadata, exfat_compat, path, 0))

\* ParsedFormat::build_path: Ok(text of the relative path) or Err
build_path(format, metadata, exfat_compat) ==
    BuildFrom(format.fs_components, 1, metadata, exfat_compat, <<>>)

------------------------------------------------------------------------------
(* std::path and std::fs, as far as the sorter uses them.  A path is the    *)
(* sequence of its components (Path compares by components); "." and ".."   *)
(* components do not occur in the model's names and are not treated.        *)

RootDir == <<"/">>

\* PathBuf::from(text): the non-empty parts between the slashes, after
\* RootDir when the text starts with a slash
PathBuf(text) ==
    LET NonEmpty(parts) == SelectSeq(parts, LAMBDA c : c # <<>>)
    IN (IF text # <<>> /\ text[1] = "/" THEN <<RootDir>> ELSE <<>>)
       \o NonEmpty(Split(text, "/"))

is_absolute(path) == path # <<>> /\ path[1] = RootDir

\* Path::parent: None for the empty path and for "/"
parent(path) ==
    IF path = <<>> \/ path = <<RootDir>> THEN None
    ELSE Some(SubSeq(path, 1, Len(path) - 1))

\* Path::join: an absolute argument replaces the base
join(base, path) == IF is_absolute(path) THEN path ELSE base \o path

\* Path::starts_with, by whole components
starts_with(path, base) == StartsWith(path, base)

\* the filesystem: the regular files (path -> content) and the directories
FsState(files, dirs) == [files |-> files, dirs |-> dirs]

is_file(fs, path) == path \in DOMAIN fs.files
is_dir(fs, path) == path \in fs.dirs
exists(fs, path) == is_file(fs, path) \/ is_dir(fs, path)

\* fs::read_dir: the entries directly inside a directory
read_dir(fs, path) ==
    {p \in (DOMAIN fs.files) \cup fs.dirs :
        Len(p) = Len(path) + 1 /\ starts_with(p, path)}

Prefixes(path) == {SubSeq(path, 1, n) : n \in 1..Len(path)}

FsOk(fs) == [ok |-> TRUE, fs |-> fs]
FsErr(fs) == [ok |-> FALSE, fs |-> fs]

\* a variant of maybe_create_dir: a path that exists already is an error
MaybeCreateDirStrict(fs, path) ==
    IF is_dir(fs, path) \/ is_file(fs, path) THEN FsErr(fs)
    ELSE IF \E q \in Prefixes(path) : is_file(fs, q) THEN FsErr(fs)
    ELSE FsOk(FsState(fs.files, fs.dirs \cup Prefixes(path)))

\* fs::create_dir_all under maybe_create_dir: a regular file at the path
\* itself gives AlreadyExists, which maybe_create_dir turns into Ok; a
\* regular file above it is an error; otherwise the missing directories
\* are created
maybe_create_dir(fs, path) ==
    IF is_dir(fs, path) \/ is_file(fs, path) THEN FsOk(fs)
    ELSE IF \E q \in Prefixes(path) : is_file(fs, q) THEN FsErr(fs)
    ELSE FsOk(FsState(fs.files, fs.dirs \cup Prefixes(path)))

\* a variant of rename: an existing regular file at the destination is an
\* error
RenameNoReplace(fs, from, to) ==
    IF ~is_file(fs, from) THEN FsErr(fs)
    ELSE IF to = <<>> \/ is_dir(fs, to) THEN FsErr(fs)
    ELSE IF ~parent(to).some \/ ~is_dir(fs, parent(to).v) THEN FsErr(fs)
    ELSE IF to = from THEN FsOk(fs)
    ELSE IF is_file(fs, to) THEN FsErr(fs)
    ELSE FsOk(FsState(
            [p \in ((DOMAIN fs.files) \ {from}) \cup {to} |->
                IF p = to THEN fs.files[from] ELSE fs.files[p]],
            fs.dirs))

\* fs::rename of a regular file: onto itself nothing happens, an existing
\* regular file at the destination is replaced, a directory at the
\* destination or a missing parent directory is an error
rename(fs, from, to) ==
    IF ~is_file(fs, from) THEN FsErr(fs)
    ELSE IF to = <<>> \/ is_dir(fs, to) THEN FsErr(fs)
    ELSE IF ~parent(to).some \/ ~is_dir(fs, parent(to).v) THEN FsErr(fs)
    ELSE IF to = from THEN FsOk(fs)
    ELSE FsOk(FsState(
            [p \in ((DOMAIN fs.files) \ {from}) \cup {to} |->
                IF p = to THEN fs.files[from] ELSE fs.files[p]],
            fs.dirs))

\* fs::remove_dir: only an empty directory is removed
remove_dir(fs, path) ==
    IF is_dir(fs, path) /\ read_dir(fs, path) = {}
    THEN FsOk(FsState(fs.files, fs.dirs \ {path}))
    ELSE FsErr(fs)

------------------------------------------------------------------------------
(* sorting.rs                                                               *)

Options(format, dryrun, recursive, exfat_compat, remove_empty) ==
    [format |-> format, dryrun |-> dryrun, recursive |-> recursive,
     exfat_compat |-> exfat_compat, remove_empty |-> remove_empty]

SortReport(success, total, new_paths) ==
    [success |-> success, total |-> total, new_paths |-> new_paths]

\* Metadata::from_path: the tags of the file's content, NotSupported for a
\* content that is no audio file, an I/O error for a missing file
from_path(fs, file) ==
    IF is_file(fs, file) THEN fs.files[file].md ELSE Err(IoError)

\* a variant of NewPath: the destination is taken from the directory of
\* the file instead of the library root
NewPathBesideFile(root, file, rel) == join(parent(file).v, rel)

\* let new_path = root.as_ref().join(&new_path)
NewPath(root, file, rel) == join(root, rel)

\* sort_file: the result (Ok(path) or Err) and the filesystem it leaves
sort_file(root, file, options, fs) ==
    LET Out(res, fs1) == [res |-> res, fs |-> fs1]
        Renamed(rel, r) ==
            IF r.ok THEN Out(Ok(rel), r.fs) ELSE Out(Err(IoError), r.fs)
        Created(rel, new_path, c) ==
            IF ~c.ok THEN Out(Err(IoError), c.fs)
            ELSE Renamed(rel, rename(c.fs, file, new_path))
        Joined(rel, new_path) ==
            IF ~parent(new_path).some THEN Out(Err(InvalidParent), fs)
            ELSE Created(rel, new_path, maybe_create_dir(fs, parent(new_path).v))
        Relative(rel) ==
            IF options.dryrun THEN Out(Ok(rel), fs)
            ELSE Joined(rel, NewPath(root, file, rel))
        Built(b) == IF ~b.ok THEN Out(b, fs) ELSE Relative(PathBuf(b.v))
        Read(md) ==
            IF ~md.ok THEN Out(md, fs)
            ELSE Built(build_path(options.format, md.v, options.exfat_compat))
    IN Read(from_path(fs, file))

\* a variant of Counted: a failed file is not counted at all
CountedOnlySuccess(report, res) ==
    IF res.ok
    THEN SortReport(report.success + 1, report.total + 1,
                    Append(report.new_paths, res.v))
    ELSE report

\* the report after one sort_file
Counted(report, res) ==
    IF res.ok
    THEN SortReport(report.success + 1, report.total + 1,
                    Append(report.new_paths, res.v))
    ELSE SortReport(report.success, report.total + 1, report.new_paths)

\* a variant of RemoveEmpty: the option is not looked at
RemoveEmptyUnasked(options, fs, path, len) ==
    IF len = 0 THEN remove_dir(fs, path).fs ELSE fs

\* the directory is removed when it is read with no entries
RemoveEmpty(options, fs, path, len) ==
    IF options.remove_empty /\ len = 0 THEN remove_dir(fs, path).fs ELSE fs

SortState(fs, paths, report) == [fs |-> fs, stack |-> paths, report |-> report]

\* one iteration of the loop of sort_folder: the path popped is the last
\* of the stack; entries is the order in which read_dir yields the
\* entries of a directory
\* a loop that pushes the entries of a directory twice
SortFolderPopTwice(root, options, st, entries) ==
    LET path == st.stack[Len(st.stack)]
        rest == SubSeq(st.stack, 1, Len(st.stack) - 1)
        Sorted(r) == SortState(r.fs, rest, Counted(st.report, r.res))
    IN IF ~exists(st.fs, path) THEN SortState(st.fs, rest, st.report)
       ELSE IF is_file(st.fs, path)
            THEN Sorted(sort_file(root, path, options, st.fs))
            ELSE SortState(RemoveEmpty(options, st.fs, path, Len(entries)),
                           rest \o entries \o entries, st.report)

SortFolderPop(root, options, st, entries) ==
    LET path == st.stack[Len(st.stack)]
        rest == SubSeq(st.stack, 1, Len(st.stack) - 1)
        Sorted(r) == SortState(r.fs, rest, Counted(st.report, r.res))
    IN IF ~exists(st.fs, path) THEN SortState(st.fs, rest, st.report)
       ELSE IF is_file(st.fs, path)
            THEN Sorted(sort_file(root, path, options, st.fs))
            ELSE SortState(RemoveEmpty(options, st.fs, path, Len(entries)),
                           rest \o entries, st.report)

\* the orders in which read_dir may yield a set of entries
Orders(S) ==
    {f \in [1..Cardinality(S) -> S] :
        \A i, j \in 1..Cardinality(S) : i # j => f[i] # f[j]}

------------------------------------------------------------------------------
(* The inputs of the path builder: format strings and metadata records      *)

TokArtist   == <<"{", "a", "r", "t", "i", "s", "t", "}">>
TokAlbumOpt == <<"{", "a", "l", "b", "u", "m", "?", "}">>
TokTitle    == <<"{", "t", "i", "t", "l", "e", "}">>
TokTitleOpt == <<"{", "t", "i", "t", "l", "e", "?", "}">>
TokExt      == <<"{", "e", "x", "t", "}">>
TokSlash    == <<"/">>
TokText     == <<"x">>

Tokens == {TokArtist, TokAlbumOpt, TokTitle, TokTitleOpt, TokExt, TokSlash, TokText}

\* the longest format string drawn from Tokens, in tokens
MaxTokens == 3

TokenFormats ==
    {Concat(ts) : ts \in UNION {[1..n -> Tokens] : n \in 1..MaxTokens}}

\* the format strings of tests/format_string.rs and the default of the binary
FmtComplete == <<"{", "a", "r", "t", "i", "s", "t", "}", "/", "{", "a", "l", "b", "u", "m", "}", "/", "{", "d", "i", "s", "c", "}", ".", "{", "t", "r", "a", "c", "k", "}", " ", "-", " ", "{", "t", "i", "t", "l", "e", "}", ".", "{", "e", "x", "t", "}">>
FmtPartial == <<"{", "a", "r", "t", "i", "s", "t", "}", "/", "{", "d", "i", "s", "c", "}", ".", "{", "t", "r", "a", "c", "k", "}", " ", "-", " ", "{", "t", "i", "t", "l", "e", "}", ".", "{", "e", "x", "t", "}">>
FmtOptionalFile == <<"{", "a", "r", "t", "i", "s", "t", "}", "/", "{", "a", "l", "b", "u", "m", "?", "}", " ", "-", " ", "{", "t", "i", "t", "l", "e", "}", ".", "{", "e", "x", "t", "}">>
FmtOptionalDir == <<"{", "a", "r", "t", "i", "s", "t", "}", "/", "{", "a", "l", "b", "u", "m", "?", "}", "/", "{", "t", "i", "t", "l", "e", "}", ".", "{", "e", "x", "t", "}">>
FmtOptionalTitle == <<"{", "a", "r", "t", "i", "s", "t", "}", "/", "{", "t", "i", "t", "l", "e", "?", "}", ".", "{", "e", "x", "t", "}">>
FmtFoo == <<"{", "a", "r", "t", "i", "s", "t", "}", "/", "f", "o", "o", ".", "{", "e", "x", "t", "}">>
FmtArtistTitle == <<"{", "a", "r", "t", "i", "s", "t", "}", "/", "{", "t", "i", "t", "l", "e", "}", ".", "{", "e", "x", "t", "}">>
FmtDefault == <<"{", "a", "r", "t", "i", "s", "t", "}", "/", "{", "a", "l", "b", "u", "m", "}", "/", "{", "t", "r", "a", "c", "k", "}", " ", "-", " ", "{", "t", "i", "t", "l", "e", "}", ".", "{", "e", "x", "t", "}">>
FmtTitle == <<"{", "t", "i", "t", "l", "e", "}", ".", "{", "e", "x", "t", "}">>
FmtUnclosed == <<"{", "a", "r", "t", "i", "s", "t">>

FmtUnknownTag == <<"{", "g", "e", "n", "r", "e", "}", ".", "{", "e", "x", "t", "}">>

\* malformed format strings
FmtEmpty == <<>>
FmtEmptyBraces == <<"{", "}", ".", "{", "e", "x", "t", "}">>
FmtExtOptional == <<"{", "t", "i", "t", "l", "e", "}", ".", "{", "e", "x", "t", "?", "}">>
FmtArtistWidth == <<"{", "a", "r", "t", "i", "s", "t", ":", "2", "}", "/", "{", "t", "i", "t", "l", "e", "}", ".", "{", "e", "x", "t", "}">>
FmtTrack300 == <<"{", "t", "r", "a", "c", "k", ":", "3", "0", "0", "}">>

\* format strings with forms that the structure does not keep
FmtDiskWidth == <<"{", "d", "i", "s", "k", ":", "0", "0", "}", "/", "{", "t", "r", "a", "c", "k", ":", "2", "}", " ", "-", " ", "{", "t", "i", "t", "l", "e", "}", ".", "{", "e", "x", "t", "}">>
FmtDoubleSlash == <<"{", "a", "r", "t", "i", "s", "t", "}", "/", "/", "{", "t", "i", "t", "l", "e", "}", ".", "{", "e", "x", "t", "}">>
FmtTrailingSlash == <<"{", "a", "r", "t", "i", "s", "t", "}", "/", "{", "t", "i", "t", "l", "e", "}", "/">>

NamedFormats ==
    {FmtComplete, FmtPartial, FmtOptionalFile, FmtOptionalDir, FmtOptionalTitle,
     FmtFoo, FmtArtistTitle, FmtDefault, FmtTitle, FmtUnclosed, FmtUnknownTag,
     FmtEmpty, FmtEmptyBraces, FmtExtOptional, FmtArtistWidth, FmtTrack300,
     FmtDiskWidth, FmtDoubleSlash, FmtTrailingSlash}

FormatStrings == TokenFormats \cup NamedFormats

\* metadata records: each text tag present or absent, disc and track as in
\* the test files
MetadataRecords ==
    {[artist |-> a, album |-> l, disc |-> Some(1), track |-> Some(1),
      title |-> t, ext |-> <<"m", "p", "3">>] :
        a \in {None, Some(<<"A", "/", "b">>)},
        l \in {None, Some(<<"L", ":">>),
               Some(<<"\"", "*", ":", "<", ">", "\\", "?", "|">>)},
        t \in {None, Some(<<"T">>)}}

EmptyFormat == ParsedFormat(<<>>, <<>>)

------------------------------------------------------------------------------
(* The path builder as a state machine: parse the format, then build        *)

\* the variables of the other machines, at rest
NoFs == FsState(<<>>, {})
NoOptions == Options(EmptyFormat, FALSE, FALSE, FALSE, FALSE)
NoReport == SortReport(0, 0, <<>>)
NoHist == [run |-> 0]
NoBp == [phase |-> "off"]
NoCli == [phase |-> "off"]
NoWatch == [phase |-> "off"]

sortVars == <<tree, stack, sreport, pc, opts, start, hist>>
vars == <<bp, tree, stack, sreport, pc, opts, start, hist, cli, watch>>

\* the stepwise sorter is not running
SorterIdle ==
    /\ stack = <<>> /\ sreport = NoReport /\ pc = "off"
    /\ opts = NoOptions /\ start = <<>> /\ hist = NoHist

SortAtRest == tree = NoFs /\ SorterIdle

BpInit ==
    /\ \E s \in FormatStrings, m \in MetadataRecords, x \in BOOLEAN :
        bp = [phase |-> "start", src |-> s, format |-> EmptyFormat,
              metadata |-> m, exfat_compat |-> x, result |-> Err(NoError),
              text |-> None]
    /\ SortAtRest
    /\ cli = NoCli
    /\ watch = NoWatch

BpParse ==
    /\ bp.phase = "start"
    /\ LET Parsed(r) == IF r.ok
                        THEN [bp EXCEPT !.phase = "parsed", !.format = r.v]
                        ELSE [bp EXCEPT !.phase = "failed", !.result = r]
       IN bp' = Parsed(from_str(bp.src))
    /\ UNCHANGED <<sortVars, cli, watch>>

BpBuild ==
    /\ bp.phase = "parsed"
    /\ bp' = [bp EXCEPT !.phase = "built",
                        !.result = build_path(bp.format, bp.metadata, bp.exfat_compat)]
    /\ UNCHANGED <<sortVars, cli, watch>>

\* the compiled format is written out (as a configuration file holds it)
BpSerialize ==
    /\ bp.phase \in {"parsed", "built"}
    /\ ~bp.text.some
    /\ bp' = [bp EXCEPT !.text = Some(serialize(bp.format))]
    /\ UNCHANGED <<sortVars, cli, watch>>

BpNext == BpParse \/ BpBuild \/ BpSerialize

SpecBuild == BpInit /\ [][BpNext]_vars

------------------------------------------------------------------------------
(* The path builder on disc and track with a width                          *)

\* the largest width, besides U8Max, and the largest number drawn
MaxWidth == 4
MaxValue == 120

Widths == (0..MaxWidth) \cup {U8Max}

NumberTags == {<<"d", "i", "s", "c">>, <<"t", "r", "a", "c", "k">>}

\* "{disc:w}" or "{track:w}"
WidthFormat(ident, w) == <<"{">> \o ident \o <<":">> \o DecStr(w) \o <<"}">>

\* a record whose disc or track is v
NumberRecord(ident, v) ==
    [artist |-> None, album |-> None, title |-> None,
     disc |-> IF ident = <<"d", "i", "s", "c">> THEN Some(v) ELSE None,
     track |-> IF ident = <<"t", "r", "a", "c", "k">> THEN Some(v) ELSE None,
     ext |-> <<"m", "p", "3">>]

ZerosInit ==
    /\ \E ident \in NumberTags, w \in Widths, v \in 0..MaxValue :
        bp = [phase |-> "start", src |-> WidthFormat(ident, w),
              format |-> EmptyFormat, metadata |-> NumberRecord(ident, v),
              exfat_compat |-> FALSE, result |-> Err(NoError), text |-> None]
    /\ SortAtRest
    /\ cli = NoCli
    /\ watch = NoWatch

SpecZeros == ZerosInit /\ [][BpNext]_vars

------------------------------------------------------------------------------
(* The trees the sorter is run on                                           *)

Root == <<RootDir, <<"m">>>>

\* where a file may lie before the sort: in the root, in a subdirectory,
\* at the destination of its own tags, and as a regular file named like
\* the artist directory
Positions ==
    << Root \o << <<"x">> >>,
       Root \o << <<"y">> >>,
       Root \o << <<"d">>, <<"x">> >>,
       Root \o << <<"A">>, <<"T", ".", "m", "p", "3">> >>,
       Root \o << <<"A">> >> >>

\* at most this many files in the tree
MaxFiles == 2

Tagged(title) ==
    Ok([artist |-> Some(<<"A">>), album |-> Some(<<"L">>), disc |-> Some(1),
        track |-> Some(1), title |-> title, ext |-> <<"m", "p", "3">>])

\* what Metadata::from_path finds in a file
Contents == {Tagged(Some(<<"T">>)), Tagged(Some(<<"U">>)), Tagged(None), Err(NotSupported)}

\* directories that may exist with nothing in them
ExtraDirs == {Root \o << <<"e">> >>, Root \o << <<"A">> >>}

TreeOf(S, a, extra) ==
    FsState([p \in {Positions[i] : i \in S} |->
                LET At(i) == [id |-> i, md |-> a[i]]
                IN At(CHOOSE i \in S : Positions[i] = p)],
            {<<RootDir>>, Root} \cup extra
              \cup UNION {Prefixes(parent(Positions[i]).v) : i \in S})

Trees ==
    UNION {{TreeOf(S, a, extra) :
                a \in [S -> Contents],
                extra \in {E \in SUBSET ExtraDirs : \A i \in S : Positions[i] \notin E}} :
           S \in {T \in SUBSET (1..Len(Positions)) :
                     Cardinality(T) <= MaxFiles /\ ~({4, 5} \subseteq T)}}

------------------------------------------------------------------------------
(* sort_folder as a state machine: one action per kind of path popped       *)

SortFormat == from_str(FmtArtistTitle).v

NoCall == [called |-> FALSE, file |-> <<>>, id |-> 0, res |-> Err(NoError)]

\* the paths of a tree
PathsOf(fs) == (DOMAIN fs.files) \cup fs.dirs

Hist0(t) ==
    [run |-> 1, fs0 |-> t,
     iters |-> 0, pushed |-> {}, repeated |-> FALSE, seen |-> PathsOf(t),
     refused |-> {},
     attempts |-> [i \in 1..Len(Positions) |-> 0],
     oks |-> 0, fails |-> 0, okAfterFail |-> FALSE,
     last |-> NoCall, removed |-> {},
     end1 |-> NoFs, report1 |-> NoReport]

SortInit ==
    /\ bp = NoBp
    /\ cli = NoCli
    /\ watch = NoWatch
    /\ \E t \in Trees, dryrun \in BOOLEAN, remove_empty \in BOOLEAN :
         /\ tree = t
         /\ opts = Options(SortFormat, dryrun, TRUE, FALSE, remove_empty)
         /\ \E dir \in {Root, Root \o << <<"d">> >>} \cap t.dirs :
              /\ start = dir
              /\ stack = <<dir>>
              /\ hist = [Hist0(t) EXCEPT !.pushed = {dir}]
    /\ sreport = NoReport
    /\ pc = "loop"

Top == stack[Len(stack)]

\* the state of the sorter after one iteration
SortApply(st) ==
    /\ tree' = st.fs
    /\ stack' = st.stack
    /\ sreport' = st.report

\* the popped path is a regular file: sort_file
SortPopFile ==
    /\ pc = "loop" /\ stack # <<>> /\ is_file(tree, Top)
    /\ SortApply(SortFolderPop(Root, opts, SortState(tree, stack, sreport), <<>>))
    /\ LET Called(id, r) ==
               [hist EXCEPT
                   !.iters = @ + 1,
                   !.seen = @ \cup PathsOf(tree'),
                   !.attempts[id] = @ + 1,
                   !.oks = IF r.res.ok THEN @ + 1 ELSE @,
                   !.fails = IF r.res.ok THEN @ ELSE @ + 1,
                   !.okAfterFail = @ \/ (r.res.ok /\ hist.fails > 0),
                   !.last = [called |-> TRUE, file |-> Top, id |-> id, res |-> r.res]]
       IN hist' = Called(tree.files[Top].id, sort_file(Root, Top, opts, tree))
    /\ UNCHANGED <<bp, cli, watch, pc, opts, start>>

\* the popped path is a directory (or is gone): its entries are pushed in
\* the order read_dir yields them
SortPopDir ==
    /\ pc = "loop" /\ stack # <<>> /\ ~is_file(tree, Top)
    /\ \E entries \in Orders(read_dir(tree, Top)) :
         SortApply(SortFolderPop(Root, opts, SortState(tree, stack, sreport), entries))
    /\ hist' = [hist EXCEPT
                    !.iters = @ + 1,
                    !.pushed = @ \cup {stack'[i] : i \in Len(stack)..Len(stack')},
                    !.repeated = @ \/ \E i \in Len(stack)..Len(stack') :
                                        stack'[i] \in hist.pushed,
                    !.removed = @ \cup (tree.dirs \ tree'.dirs)]
    /\ UNCHANGED <<bp, cli, watch, pc, opts, start>>

\* the popped path is a directory read with no entries and fs::remove_dir
\* fails (the host refuses: the directory is in use, or may not be
\* removed): the error is logged and the loop goes on
SortPopDirRefused ==
    /\ pc = "loop" /\ stack # <<>> /\ is_dir(tree, Top)
    /\ opts.remove_empty /\ read_dir(tree, Top) = {}
    /\ SortApply(SortState(tree, SubSeq(stack, 1, Len(stack) - 1), sreport))
    /\ hist' = [hist EXCEPT !.iters = @ + 1, !.refused = @ \cup {Top}]
    /\ UNCHANGED <<bp, cli, watch, pc, opts, start>>

\* the stack is empty: Ok(report)
SortReturn ==
    /\ pc = "loop" /\ stack = <<>>
    /\ pc' = "done"
    /\ hist' = IF hist.run = 1
               THEN [hist EXCEPT !.end1 = tree, !.report1 = sreport]
               ELSE hist
    /\ UNCHANGED <<bp, cli, watch, tree, stack, sreport, opts, start>>

\* the same call once more, on the tree the first call left
SortAgain ==
    /\ pc = "done" /\ hist.run = 1
    /\ pc' = "loop"
    /\ stack' = <<start>>
    /\ sreport' = NoReport
    /\ hist' = [hist EXCEPT !.run = 2,
                            !.iters = 0, !.pushed = {start}, !.repeated = FALSE,
                            !.refused = {},
                            !.seen = PathsOf(tree),
                            !.attempts = [i \in 1..Len(Positions) |-> 0],
                            !.oks = 0, !.fails = 0, !.okAfterFail = FALSE,
                            !.last = NoCall, !.removed = {}]
    /\ UNCHANGED <<bp, cli, watch, tree, opts, start>>

SortNext ==
    SortPopFile \/ SortPopDir \/ SortPopDirRefused \/ SortReturn \/ SortAgain

SpecSort == SortInit /\ [][SortNext]_vars

------------------------------------------------------------------------------
(* sort_folder as one call, config.rs, and the sort command of the binary   *)

Reverse(s) == [i \in 1..Len(s) |-> s[Len(s) + 1 - i]]

\* the entries of a directory as read_dir yields them: in some order or in
\* the reverse of it
Entries(fs, path, rev) ==
    LET Pick(f) == IF rev THEN Reverse(f) ELSE f
    IN Pick(CHOOSE f \in Orders(read_dir(fs, path)) : TRUE)

\* while let Some(path) = stack.pop()
RECURSIVE SortLoop(_, _, _, _)
SortLoop(root, options, st, rev) ==
    IF st.stack = <<>> THEN st
    ELSE SortLoop(root, options,
                  SortFolderPop(root, options, st,
                                Entries(st.fs, st.stack[Len(st.stack)], rev)),
                  rev)

\* sort_folder: the report (the call always returns Ok) and the filesystem
\* it leaves
sort_folder(root, dir, options, fs, rev) ==
    SortLoop(root, options, SortState(fs, <<dir>>, SortReport(0, 0, <<>>)), rev)

LibraryConfig(format, folders, exfat_compat) ==
    [format |-> format, folders |-> folders, exfat_compat |-> exfat_compat]

\* Config: libraries by name
Config(libraries) == [libraries |-> libraries]

search_format(config, path) ==
    LET Found(names) ==
            IF names = {} THEN None
            ELSE Some(config.libraries[CHOOSE n \in names : TRUE].format)
    IN Found({n \in DOMAIN config.libraries : path \in config.libraries[n].folders})

format_of(config, library) ==
    IF library \in DOMAIN config.libraries
    THEN Some(config.libraries[library].format)
    ELSE None

is_exfat_compat(config, library) ==
    IF library \in DOMAIN config.libraries
       /\ config.libraries[library].exfat_compat.some
    THEN config.libraries[library].exfat_compat.v
    ELSE FALSE

\* the command line of `muso sort`
ArgMatches(format, path, dryrun, recursive, exfatcompat, rm_empty) ==
    [format |-> format, path |-> path, dryrun |-> dryrun, recursive |-> recursive,
     exfatcompat |-> exfatcompat, rm_empty |-> rm_empty]

\* build_options: Ok of the working path and the Options, or the panic of
\* the parser
build_options(matches, config, cwd) ==
    LET Built(working_path, format) ==
            Ok([working_path |-> working_path,
                options |-> Options(format, matches.dryrun, matches.recursive,
                                    matches.exfatcompat, matches.rm_empty)])
        OrDefault(working_path, format) ==
            Built(working_path,
                  IF format.some THEN format.v ELSE from_str(FmtDefault).v)
        Given(working_path, r) ==
            IF r.err = Panicked THEN Err(Panicked)
            ELSE OrDefault(working_path, IF r.ok THEN Some(r.v) ELSE None)
        At(working_path) ==
            IF matches.format.some
            THEN Given(working_path, from_str(matches.format.v))
            ELSE OrDefault(working_path, search_format(config, working_path))
    IN At(IF matches.path.some THEN matches.path.v ELSE cwd)

\* run, for the subcommand sort: the result and the filesystem it leaves
run_sort(matches, config, cwd, fs, rev) ==
    LET Out(res, fs1) == [res |-> res, fs |-> fs1]
        Sorted(r) == Out(Ok(r.report), r.fs)
        Built(b) ==
            IF ~b.ok THEN Out(b, fs)
            ELSE IF is_dir(fs, b.v.working_path)
                 THEN Sorted(sort_folder(b.v.working_path, b.v.working_path,
                                         b.v.options, fs, rev))
                 ELSE Out(Err(InvalidRoot), fs)
    IN Built(build_options(matches, config, cwd))


\* the format strings given with -f
CliFormats == {FmtArtistTitle, FmtTitle, FmtUnclosed, FmtUnknownTag}

\* the configurations: no library, or one library on the root
Configs ==
    {Config(<<>>),
     Config([n \in {"lib"} |->
                LibraryConfig(from_str(FmtTitle).v, {Root}, None)])}

CliInit ==
    /\ bp = NoBp
    /\ watch = NoWatch
    /\ SorterIdle
    /\ \E t \in Trees, c \in Configs,
          f \in {None} \cup {Some(x) : x \in CliFormats},
          path \in {None, Some(Root), Some(Root \o << <<"x">> >>)},
          dryrun \in BOOLEAN, recursive \in BOOLEAN, rm_empty \in BOOLEAN :
         /\ tree = t
         /\ cli = [phase |-> "start",
                   matches |-> ArgMatches(f, path, dryrun, recursive, FALSE, rm_empty),
                   config |-> c, cwd |-> Root, fs0 |-> t,
                   result |-> Err(NoError)]

\* main: run the subcommand and exit
CliSort ==
    /\ cli.phase = "start"
    /\ \E rev \in BOOLEAN :
         LET Ran(r) ==
                 /\ tree' = r.fs
                 /\ cli' = [cli EXCEPT !.phase = "exit", !.result = r.res]
         IN Ran(run_sort(cli.matches, cli.config, cli.cwd, tree, rev))
    /\ UNCHANGED <<bp, watch, stack, sreport, pc, opts, start, hist>>

CliNext == CliSort

SpecCli == CliInit /\ [][CliNext]_vars

------------------------------------------------------------------------------
(* watcher.rs: the watch loop, with the host that sends the notifications   *)

Event(kind, path) == [kind |-> kind, path |-> path]

\* Watcher::new
WatcherNew(config) ==
    [config |-> config,
     roots |-> [f \in UNION {config.libraries[n].folders : n \in DOMAIN config.libraries} |->
                  CHOOSE n \in DOMAIN config.libraries : f \in config.libraries[n].folders],
     ignore |-> {}]

\* a variant of ignore_path: a path whose parent is the empty path is
\* refused like a path without parent
IgnorePathNeedsDirectory(ignore, path, root) ==
    LET Parent(up) ==
            IF ~up.some \/ up.v = <<>> THEN Err(InvalidParent)
            ELSE Ok((IF up.v # root THEN ignore \cup {up.v} ELSE ignore) \cup {path})
    IN Parent(parent(path))

\* Watcher::ignore_path: the ignore set with the path and, unless it is
\* the root, its parent
ignore_path(ignore, path, root) ==
    LET Parent(up) ==
            IF ~up.some THEN Err(InvalidParent)
            ELSE Ok((IF up.v # root THEN ignore \cup {up.v} ELSE ignore) \cup {path})
    IN Parent(parent(path))

\* for new_path in report.new_paths { self.ignore_path(new_path, &root)?; }
RECURSIVE IgnoreAll(_, _, _, _)
IgnoreAll(ignore, new_paths, i, root) ==
    IF i > Len(new_paths) THEN Ok(ignore)
    ELSE LET Step(r) == IF ~r.ok THEN r ELSE IgnoreAll(r.v, new_paths, i + 1, root)
         IN Step(ignore_path(ignore, new_paths[i], root))

\* a variant of is_ignored: an entry need not be a directory to make the
\* paths above it match
IsIgnoredByAnyEntry(ignore, fs, cwd, path) ==
    IF is_file(fs, join(cwd, path)) THEN path \in ignore
    ELSE \E ignored \in ignore : starts_with(ignored, path)

\* Watcher::is_ignored; is_file and is_dir resolve a relative path against
\* the working directory of the process, and the empty path is no directory
is_ignored(ignore, fs, cwd, path) ==
    IF is_file(fs, join(cwd, path)) THEN path \in ignore
    ELSE \E ignored \in ignore :
            /\ ignored # <<>>
            /\ is_dir(fs, join(cwd, ignored))
            /\ starts_with(ignored, path)

\* a variant of root_for: the farthest ancestor that is a root
RootForOutermost(roots, path) ==
    LET Farthest(hits) ==
            IF hits = {} THEN None
            ELSE Some(CHOOSE a \in hits : \A b \in hits : Len(a) <= Len(b))
    IN Farthest(Prefixes(path) \cap DOMAIN roots)

\* a variant of root_for: a path with no root above it is given some root
RootForSomeRoot(roots, path) ==
    LET Nearest(hits) ==
            IF hits = {} THEN Some(CHOOSE r \in DOMAIN roots : TRUE)
            ELSE Some(CHOOSE a \in hits : \A b \in hits : Len(b) <= Len(a))
    IN Nearest(Prefixes(path) \cap DOMAIN roots)

\* Watcher::root_for: the nearest ancestor (the path itself included) that
\* is a root
root_for(roots, path) ==
    LET Nearest(hits) ==
            IF hits = {} THEN None
            ELSE Some(CHOOSE a \in hits : \A b \in hits : Len(b) <= Len(a))
    IN Nearest(Prefixes(path) \cap DOMAIN roots)

\* the Options the watch loop sorts with
WatchOptions(self, library) ==
    Options(format_of(self.config, library).v, FALSE, TRUE,
            is_exfat_compat(self.config, library), TRUE)

\* the arm of Create and Rename: the ignore set and the filesystem it
\* leaves, whether the loop returned with an error, and what it did
WatchHandle(self, fs, cwd, path, rev) ==
    LET Out(ignore, fs1, stopped, how, res) ==
            [ignore |-> ignore, fs |-> fs1, stopped |-> stopped, how |-> how, res |-> res]
        Ignored(r, fs1, how, res) ==
            IF r.ok THEN Out(r.v, fs1, FALSE, how, res)
            ELSE Out(self.ignore, fs1, TRUE, how, res)
        Folder(root, r) ==
            Ignored(IgnoreAll(self.ignore, r.report.new_paths, 1, root), r.fs,
                    "sort_folder", Ok(r.report))
        File(root, r) ==
            IF r.res.ok
            THEN Ignored(ignore_path(self.ignore, r.res.v, root), r.fs, "sort_file", r.res)
            ELSE Out(self.ignore, r.fs, FALSE, "sort_file", r.res)
        Rooted(root, options) ==
            IF is_dir(fs, path)
            THEN Folder(root, sort_folder(root, path, options, fs, rev))
            ELSE File(root, sort_file(root, path, options, fs))
        WithRoot(root) ==
            IF ~root.some THEN Out(self.ignore, fs, FALSE, "no root", Err(NoError))
            ELSE Rooted(root.v, WatchOptions(self, self.roots[root.v]))
    IN IF is_ignored(self.ignore, fs, cwd, path)
       THEN Out(self.ignore \ {path}, fs, FALSE, "ignored", Err(NoError))
       ELSE WithRoot(root_for(self.roots, path))

\* a set of paths as a sequence, the shorter paths first
RECURSIVE InOrder(_)
InOrder(S) ==
    IF S = {} THEN <<>>
    ELSE LET From(p) == <<p>> \o InOrder(S \ {p})
         IN From(CHOOSE p \in S : \A q \in S : Len(p) <= Len(q))

\* what the host notifies of a change of the filesystem: the directories
\* created, the files renamed (to their new paths), the directories removed
Notifications(before, after) ==
    LET Of(kind, paths) == [i \in 1..Len(paths) |-> Event(kind, paths[i])]
    IN Of("Create", InOrder(after.dirs \ before.dirs))
       \o Of("Rename", InOrder({p \in DOMAIN after.files :
                                   p \notin DOMAIN before.files
                                   \/ after.files[p] # before.files[p]}))
       \o Of("Remove", InOrder(before.dirs \ after.dirs))

\* the host sends at most this many notifications of its own
MaxDrops == 2

NoEvent ==
    [handled |-> FALSE, path |-> <<>>, status |-> "none", how |-> "none",
     res |-> Err(NoError)]

\* a format string that is one slash
FmtSlash == <<"/">>

\* a format string that is the title alone
FmtTitleOnly == <<"{", "t", "i", "t", "l", "e", "}">>

\* what the files put into a watched library hold: a title, a title that
\* has a colon, an empty title, no title, and no audio at all
WatchContents ==
    {Tagged(Some(<<"T">>)), Tagged(Some(<<"T", ":">>)), Tagged(Some(<<>>)),
     Tagged(None), Err(NotSupported)}

SubRoot == Root \o << <<"d">> >>

\* a format string that names the library root itself
FmtAbsolute == <<"/", "m", "/", "{", "a", "r", "t", "i", "s", "t", "}", "/", "{", "a", "l", "b", "u", "m", "}", "/", "{", "t", "i", "t", "l", "e", "}", ".", "{", "e", "x", "t", "}">>

\* the directory that FmtAbsolute sorts the tagged files into
AlbumDir == Root \o << <<"A">>, <<"L">> >>

\* the configurations watched, each with directories that exist from the
\* start: one library on the root, one library on a subdirectory, two
\* libraries of which one lies inside the other, and one library whose
\* format is absolute, with the album directory missing or there
WatchConfigs ==
    {[config |-> Config([n \in {"lib"} |->
                    LibraryConfig(from_str(FmtAbsolute).v, {Root}, None)]),
      dirs |-> d] : d \in {{}, {Root \o << <<"A">> >>, AlbumDir}}}
    \cup
    {[config |-> Config([n \in {"lib"} |-> LibraryConfig(from_str(f).v, {Root}, None)]),
      dirs |-> {}] : f \in {FmtArtistTitle, FmtTitle, FmtTitleOnly, FmtSlash}}
    \cup
    {[config |-> Config([n \in {"sub"} |->
                    LibraryConfig(from_str(FmtTitle).v, {SubRoot}, Some(TRUE))]),
      dirs |-> {SubRoot}],
     [config |-> Config([n \in {"lib", "sub"} |->
                    IF n = "lib"
                    THEN LibraryConfig(from_str(FmtArtistTitle).v, {Root}, None)
                    ELSE LibraryConfig(from_str(FmtTitle).v, {SubRoot}, Some(TRUE))]),
      dirs |-> {SubRoot}]}

WatchInit ==
    /\ bp = NoBp
    /\ cli = NoCli
    /\ SorterIdle
    /\ \E t \in {u \in Trees : DOMAIN u.files = {}},
          w \in WatchConfigs,
          cwd \in {<<RootDir>>, Root} :
         /\ tree = FsState(t.files, t.dirs \cup w.dirs)
         /\ watch = [phase |-> "loop",
                     self |-> WatcherNew(w.config),
                     rx |-> <<>>, cwd |-> cwd, drops |-> 0,
                     pending |-> {}, consumed |-> {}, last |-> NoEvent]

\* somebody puts a file into the library
HostCreate ==
    /\ watch.phase = "loop" /\ watch.drops < MaxDrops
    /\ \E i \in 1..Len(Positions), c \in WatchContents :
         /\ ~exists(tree, Positions[i])
         /\ is_dir(tree, parent(Positions[i]).v)
         /\ tree' = FsState(
                [p \in (DOMAIN tree.files) \cup {Positions[i]} |->
                    IF p = Positions[i]
                    THEN [id |-> Len(Positions) + 1 + watch.drops, md |-> c]
                    ELSE tree.files[p]],
                tree.dirs)
         /\ watch' = [watch EXCEPT !.drops = @ + 1,
                                   !.rx = Append(@, Event("Create", Positions[i]))]
    /\ UNCHANGED <<bp, cli, stack, sreport, pc, opts, start, hist>>

\* the host sends a notification that is neither Create nor Rename
HostOther ==
    /\ watch.phase = "loop" /\ watch.drops < MaxDrops
    /\ \E e \in {Event("Rescan", <<>>)}
                 \cup {Event("Write", p) : p \in DOMAIN tree.files} :
         watch' = [watch EXCEPT !.drops = @ + 1, !.rx = Append(@, e)]
    /\ UNCHANGED <<bp, cli, tree, stack, sreport, pc, opts, start, hist>>

\* rx.recv() yields Rescan or a notification of another kind: continue
WatchSkip ==
    /\ watch.phase = "loop" /\ watch.rx # <<>>
    /\ Head(watch.rx).kind \notin {"Create", "Rename"}
    /\ watch' = [watch EXCEPT !.rx = Tail(@)]
    /\ UNCHANGED <<bp, cli, tree, stack, sreport, pc, opts, start, hist>>

\* the paths whose next notification is caused by the sort itself: the
\* destination a file was renamed to and its parent, unless that is the root
Echo(self, path, out) ==
    LET At(root, dest) ==
            IF dest # path /\ parent(dest).v # root
            THEN {dest, parent(dest).v}
            ELSE {}
    IN IF out.how = "sort_file" /\ out.res.ok
       THEN At(root_for(self.roots, path).v,
               join(root_for(self.roots, path).v, out.res.v))
       ELSE {}

WatchApply(path, out, echo) ==
    /\ tree' = out.fs
    /\ watch' = [watch EXCEPT
                    !.phase = IF out.stopped THEN "returned" ELSE "loop",
                    !.self.ignore = out.ignore,
                    !.rx = Tail(@) \o Notifications(tree, out.fs),
                    !.pending = (@ \ {path}) \cup echo,
                    !.consumed = (@ \cup (watch.pending \cap {path})) \ echo,
                    !.last = [handled |-> TRUE, path |-> path,
                              status |-> IF path \in watch.pending THEN "pending"
                                         ELSE IF path \in watch.consumed THEN "consumed"
                                         ELSE "none",
                              how |-> out.how, res |-> out.res]]

\* rx.recv() yields Create(path) or Rename(_, path)
WatchCreate ==
    /\ watch.phase = "loop" /\ watch.rx # <<>>
    /\ Head(watch.rx).kind \in {"Create", "Rename"}
    /\ \E rev \in BOOLEAN :
         LET Handled(path, out) == WatchApply(path, out, Echo(watch.self, path, out))
         IN Handled(Head(watch.rx).path,
                    WatchHandle(watch.self, tree, watch.cwd, Head(watch.rx).path, rev))
    /\ UNCHANGED <<bp, cli, stack, sreport, pc, opts, start, hist>>

WatchNext == HostCreate \/ HostOther \/ WatchSkip \/ WatchCreate

SpecWatch == WatchInit /\ [][WatchNext]_vars

------------------------------------------------------------------------------
(* is_ignored asked about one path, for ignore sets, trees and paths drawn  *)
(* from small sets                                                          *)

\* the entries an ignore set is drawn from: a directory and a file that a
\* sort made, another directory, and a relative path
IgnoreEntries ==
    {Root \o << <<"A">> >>,
     Root \o << <<"A">>, <<"T", ".", "m", "p", "3">> >>,
     Root \o << <<"e">> >>,
     << <<"A">> >>}

\* the paths asked about
AskedPaths ==
    {<<RootDir>>, Root,
     Root \o << <<"A">> >>,
     Root \o << <<"A">>, <<"T", ".", "m", "p", "3">> >>,
     Root \o << <<"e">> >>,
     Root \o << <<"x">> >>}

\* the trees asked about: at most one file, any of the extra directories
AskedTrees ==
    {t \in Trees : /\ Cardinality(DOMAIN t.files) <= 1
                   /\ \A p \in DOMAIN t.files : t.files[p].md = Tagged(Some(<<"T">>))}

IgnoredInit ==
    /\ bp = NoBp
    /\ cli = NoCli
    /\ SorterIdle
    /\ \E t \in AskedTrees, ig \in SUBSET IgnoreEntries, p \in AskedPaths,
          cwd \in {<<RootDir>>, Root} :
         /\ tree = t
         /\ watch = [phase |-> "asked", ignore |-> ig, cwd |-> cwd, path |-> p,
                     answer |-> FALSE]

\* if self.is_ignored(&path)
AskIgnored ==
    /\ watch.phase = "asked"
    /\ watch' = [watch EXCEPT
                    !.phase = "answered",
                    !.answer = is_ignored(watch.ignore, tree, watch.cwd, watch.path)]
    /\ UNCHANGED <<bp, cli, tree, stack, sreport, pc, opts, start, hist>>

IgnoredNext == AskIgnored

SpecIgnored == IgnoredInit /\ [][IgnoredNext]_vars

------------------------------------------------------------------------------
(* Claims about the sorter                                                  *)

InSubtree(p) == starts_with(p, start)

\* C2 (as claimed): with dryrun unset, the path sort_file returns is the
\* resolved destination, root joined with the built path, at which the
\* file resides after the call.
C2_ReturnsResolvedDestination ==
    (pc \in {"loop", "done"} /\ hist.last.called /\ hist.last.res.ok /\ ~opts.dryrun)
        => /\ is_absolute(hist.last.res.v)
           /\ is_file(tree, hist.last.res.v)
           /\ tree.files[hist.last.res.v].id = hist.last.id

\* C3 (as claimed): when sort_folder has returned, every regular file that
\* was in the subtree of the start directory at call time has been
\* attempted exactly once, total is the number of those files and success
\* the number of successful attempts.
C3_EachFileAttemptedOnce ==
    (pc = "done" /\ hist.run = 1)
        => /\ sreport.total =
                Cardinality({p \in DOMAIN hist.fs0.files : InSubtree(p)})
           /\ \A p \in DOMAIN hist.fs0.files :
                InSubtree(p) => hist.attempts[hist.fs0.files[p].id] = 1
           /\ sreport.success = hist.oks

\* the file that was alone in directory d at call time is no longer in d
SoleFileMovedOut(d) ==
    /\ read_dir(hist.fs0, d) \subseteq DOMAIN hist.fs0.files
    /\ Cardinality(read_dir(hist.fs0, d)) = 1
    /\ read_dir(tree, d) = {}

\* C4 (as claimed): with removeEmpty set, after sort_folder returns, a
\* directory of the traversed subtree left with zero entries because its
\* sole file was moved out during the traversal has been deleted.
C4_EmptiedDirRemoved ==
    (pc = "done" /\ hist.run = 1 /\ opts.remove_empty /\ ~opts.dryrun)
        => \A d \in hist.fs0.dirs :
              (InSubtree(d) /\ SoleFileMovedOut(d)) => ~is_dir(tree, d)

\* C5 (as claimed): with dryrun set the filesystem is left unchanged, for
\* every combination of the other options.
C5_DryrunLeavesTree ==
    (pc \in {"loop", "done"} /\ opts.dryrun) => tree = hist.fs0

\* C6: a failed file is counted in total and not in success, and the
\* traversal goes on: when sort_folder has returned, total is the number
\* of calls of sort_file, success the number of those that returned Ok,
\* and every file in the subtree has been attempted.
C6_FailureCountedNotFatal ==
    (pc = "done")
        => /\ sreport.total = hist.oks + hist.fails
           /\ sreport.success = hist.oks
           /\ \A p \in DOMAIN tree.files :
                InSubtree(p) => hist.attempts[tree.files[p].id] >= 1

\* a traversal in which a file failed and a later file was sorted
C6_Witness == pc = "done" /\ hist.fails > 0 /\ hist.okAfterFail

------------------------------------------------------------------------------
(* Claims about the path builder                                            *)

\* the placeholders of the Dir segments, as (segment, component) positions
DirSlots(format) ==
    UNION {{<<k, i>> : i \in {j \in 1..Len(format.fs_components[k].comps) :
                                format.fs_components[k].comps[j].kind = "Placeholder"}} :
           k \in {n \in 1..Len(format.fs_components) :
                    format.fs_components[n].kind = "Dir"}}

SlotAt(format, s) == format.fs_components[s[1]].comps[s[2]].p

\* template order
SlotBefore(s, t) == s[1] < t[1] \/ (s[1] = t[1] /\ s[2] < t[2])

\* the record has a value for the tag (Ext is always there)
HasTag(metadata, name) ==
    CASE name = "artist" -> metadata.artist.some
      [] name = "album"  -> metadata.album.some
      [] name = "title"  -> metadata.title.some
      [] name = "disc"   -> metadata.disc.some
      [] name = "track"  -> metadata.track.some
      [] name = "ext"    -> TRUE

\* the Dir placeholders whose tag the record lacks
Unresolved(format, metadata) ==
    {s \in DirSlots(format) : ~HasTag(metadata, SlotAt(format, s).tag.name)}

FirstSlot(slots) == CHOOSE s \in slots : \A t \in slots : s = t \/ SlotBefore(s, t)

\* the error of the first Dir placeholder that does not resolve
DirError(format, slots) ==
    LET Of(p) == IF p.optional THEN OptionalInDir ELSE MissingTag(p.tag.name)
    IN Of(SlotAt(format, FirstSlot(slots)))

\* the format ends in a File segment none of whose placeholders is Required
\* and not Ext
FileWithoutRequired(format) ==
    LET NoneCounts(seg) ==
            /\ seg.kind = "File"
            /\ \A i \in 1..Len(seg.comps) :
                 seg.comps[i].kind = "Placeholder"
                    => (seg.comps[i].p.optional \/ seg.comps[i].p.tag.name = "ext")
    IN /\ format.fs_components # <<>>
       /\ NoneCounts(format.fs_components[Len(format.fs_components)])

\* C9 (as claimed): for a format whose File segment has no Required non-Ext
\* placeholder, build_path fails with RequiredInFile for every record.
C9_AlwaysRequiredInFile ==
    (bp.phase = "built" /\ FileWithoutRequired(bp.format))
        => bp.result = Err(RequiredInFile)

\* C9 (amended): for such a format build_path fails for every record: with
\* RequiredInFile when every placeholder of the Dir segments resolves, and
\* otherwise with the error of the first Dir placeholder that does not
\* (MissingTag for a Required one, OptionalInDir for an Optional one).
C9_AlwaysFails ==
    (bp.phase = "built" /\ FileWithoutRequired(bp.format))
        => LET Fails(slots) ==
                   bp.result = Err(IF slots = {} THEN RequiredInFile
                                   ELSE DirError(bp.format, slots))
           IN Fails(Unresolved(bp.format, bp.metadata))

\* a build that reached the File segment of such a format, past a Dir
\* placeholder, and failed there
C9_Witness ==
    /\ bp.phase = "built" /\ FileWithoutRequired(bp.format)
    /\ \E s \in DirSlots(bp.format) : SlotAt(bp.format, s).tag.name # "ext"
    /\ Unresolved(bp.format, bp.metadata) = {}
    /\ bp.result = Err(RequiredInFile)

\* the format with every Optional Dir placeholder whose tag is present
\* made Required
RequiredWherePresent(format, metadata) ==
    LET Basic(k, i, c) ==
            IF c.kind = "Placeholder" /\ <<k, i>> \in DirSlots(format)
               /\ HasTag(metadata, c.p.tag.name)
            THEN BasicPlaceholder(Required(c.p.tag))
            ELSE c
        Seg(k, seg) ==
            [kind |-> seg.kind,
             comps |-> [i \in 1..Len(seg.comps) |-> Basic(k, i, seg.comps[i])]]
    IN ParsedFormat([k \in 1..Len(format.fs_components) |->
                        Seg(k, format.fs_components[k])],
                    format.orig_string)

\* C10: build_path fails with OptionalInDir exactly when the first Dir
\* placeholder, in template order, whose tag the record lacks is Optional;
\* and the result is that of the format in which the Optional Dir
\* placeholders whose tag is present are Required.
C10_OptionalInDirExactly ==
    (bp.phase = "built")
        => LET Exactly(slots) ==
                   (bp.result = Err(OptionalInDir))
                      <=> (slots # {} /\ DirError(bp.format, slots) = OptionalInDir)
           IN /\ Exactly(Unresolved(bp.format, bp.metadata))
              /\ bp.result = build_path(RequiredWherePresent(bp.format, bp.metadata),
                                        bp.metadata, bp.exfat_compat)

\* a build that failed with OptionalInDir after an earlier Dir placeholder
\* had resolved, the format having another Optional Dir placeholder whose
\* tag is present
C10_Witness ==
    /\ bp.phase = "built"
    /\ bp.result = Err(OptionalInDir)
    /\ \E s \in DirSlots(bp.format) :
         /\ SlotBefore(s, FirstSlot(Unresolved(bp.format, bp.metadata)))
         /\ SlotAt(bp.format, s).optional

------------------------------------------------------------------------------
(* Claims about the sort command                                            *)

\* the format string given on the command line does not parse
MalformedFormatGiven ==
    /\ cli.matches.format.some
    /\ from_str(cli.matches.format.v) = Err(FailedToParse)

\* C8 (as claimed): a malformed format string on the command line of sort
\* is fatal: the command ends with FailedToParse and no file is sorted.
C8_MalformedFormatFatal ==
    (cli.phase = "exit" /\ MalformedFormatGiven)
        => /\ cli.result = Err(FailedToParse)
           /\ tree = cli.fs0

\* the path the command works on
WorkingPath == IF cli.matches.path.some THEN cli.matches.path.v ELSE cli.cwd

\* the regular files below the subdirectories of a directory
FilesOfSubdirectories(fs, dir) ==
    {p \in DOMAIN fs.files : starts_with(p, dir) /\ Len(p) > Len(dir) + 1}

\* C18 (as claimed): with recursive unset, sort sorts only the regular
\* files directly inside the start directory and leaves the files of its
\* subdirectories where they are.
C18_NotRecursiveStaysShallow ==
    (cli.phase = "exit" /\ ~cli.matches.recursive)
        => \A p \in FilesOfSubdirectories(cli.fs0, WorkingPath) :
             is_file(tree, p) /\ tree.files[p] = cli.fs0.files[p]

------------------------------------------------------------------------------
(* Claims about the watcher                                                 *)

\* C1 (as claimed): after sort_file renamed a file to D, with parent P
\* other than the root, the next notification for D and the next for P
\* are swallowed (no sort is run for them), and a second notification for
\* the same path afterwards is not swallowed.
C1_EchoSwallowedOnce ==
    (watch.phase # "off" /\ watch.last.handled)
        => /\ watch.last.status = "pending" => watch.last.how = "ignored"
           /\ watch.last.status = "consumed" => watch.last.how # "ignored"

------------------------------------------------------------------------------
(* What a built path is expected to be, written from the format alone       *)

Max(a, b) == IF a >= b THEN a ELSE b

\* decimal digits left-padded with zeros to the width
ZeroPadded(digits, width) ==
    [i \in 1..Max(width, Len(digits)) |->
        IF i <= Max(width, Len(digits)) - Len(digits) THEN "0"
        ELSE digits[i - (Max(width, Len(digits)) - Len(digits))]]

\* the text the record has for a tag that it has
TagValue(metadata, tag) ==
    CASE tag.name = "artist" -> metadata.artist.v
      [] tag.name = "album"  -> metadata.album.v
      [] tag.name = "title"  -> metadata.title.v
      [] tag.name = "disc"   -> ZeroPadded(DecStr(metadata.disc.v), tag.leading)
      [] tag.name = "track"  -> ZeroPadded(DecStr(metadata.track.v), tag.leading)
      [] tag.name = "ext"    -> metadata.ext

\* a resolved value as it may appear in a path
Sanitized(value, exfat_compat) ==
    [i \in 1..Len(value) |->
        IF value[i] = "/" THEN "_"
        ELSE IF exfat_compat /\ value[i] \in {"\"", "*", ":", "<", ">", "\\", "?", "|"}
             THEN "_"
             ELSE value[i]]

\* the text of one component: the literal, the sanitized value, or nothing
\* for a tag the record lacks
ComponentText(c, metadata, exfat_compat) ==
    IF c.kind = "String" THEN c.s
    ELSE IF HasTag(metadata, c.p.tag.name)
         THEN Sanitized(TagValue(metadata, c.p.tag), exfat_compat)
         ELSE <<>>

SegmentText(seg, metadata, exfat_compat) ==
    Concat([i \in 1..Len(seg.comps) |->
               ComponentText(seg.comps[i], metadata, exfat_compat)])
    \o (IF seg.kind = "Dir" THEN <<"/">> ELSE <<>>)

ExpectedPath(format, metadata, exfat_compat) ==
    Concat([k \in 1..Len(format.fs_components) |->
               SegmentText(format.fs_components[k], metadata, exfat_compat)])

HasFileSegment(format) ==
    /\ format.fs_components # <<>>
    /\ format.fs_components[Len(format.fs_components)].kind = "File"

FileSegment(format) == format.fs_components[Len(format.fs_components)]

\* the placeholders of a segment
PlaceholdersOf(seg) ==
    {seg.comps[i].p : i \in {j \in 1..Len(seg.comps) : seg.comps[j].kind = "Placeholder"}}

\* the File segment has a Required placeholder other than Ext, and the
\* record has the tag of each of its Required placeholders
FileResolves(format, metadata) ==
    /\ \E p \in PlaceholdersOf(FileSegment(format)) :
         ~p.optional /\ p.tag.name # "ext"
    /\ \A p \in PlaceholdersOf(FileSegment(format)) :
         ~p.optional => HasTag(metadata, p.tag.name)

\* the text after the last slash
AfterLastSlash(text) ==
    LET From(slashes) ==
            IF slashes = {} THEN text
            ELSE SeqDrop(text, CHOOSE i \in slashes : \A j \in slashes : j <= i)
    IN From({i \in 1..Len(text) : text[i] = "/"})

\* C11: in a File segment an Optional placeholder whose tag is absent
\* raises no error and contributes the empty string, the literal text
\* around it is kept, and a tag that is present is inserted: when the
\* Required placeholders of the File segment resolve, the build succeeds
\* as soon as the Dir segments do, and the file name built is the
\* concatenation of the literals and of the values the record has.
C11_OptionalInFileIsEmpty ==
    (bp.phase = "built" /\ HasFileSegment(bp.format)
        /\ FileResolves(bp.format, bp.metadata))
        => /\ Unresolved(bp.format, bp.metadata) = {} => bp.result.ok
           /\ bp.result.ok =>
                AfterLastSlash(bp.result.v) =
                    SegmentText(FileSegment(bp.format), bp.metadata, bp.exfat_compat)

\* "{artist}/{album?} - {title}.{ext}" built for a record without album
C11_Witness ==
    /\ bp.phase = "built" /\ bp.src = FmtOptionalFile
    /\ ~bp.metadata.album.some
    /\ bp.result.ok
    /\ AfterLastSlash(bp.result.v) = <<" ", "-", " ", "T", ".", "m", "p", "3">>

\* the placeholders of all segments, as (segment, component) positions
AllSlots(format) ==
    UNION {{<<k, i>> : i \in {j \in 1..Len(format.fs_components[k].comps) :
                                format.fs_components[k].comps[j].kind = "Placeholder"}} :
           k \in 1..Len(format.fs_components)}

\* the placeholders that do not resolve: the tag is absent and the
\* placeholder is Required, or Optional in a Dir segment
Failing(format, metadata) ==
    {s \in AllSlots(format) :
        /\ ~HasTag(metadata, SlotAt(format, s).tag.name)
        /\ (~SlotAt(format, s).optional \/ format.fs_components[s[1]].kind = "Dir")}

\* the Required placeholders whose tag the record lacks
MissingRequired(format, metadata) ==
    {s \in AllSlots(format) :
        ~SlotAt(format, s).optional /\ ~HasTag(metadata, SlotAt(format, s).tag.name)}

\* C12 (as claimed): every Required placeholder whose tag is absent makes
\* build_path fail with MissingTag naming that tag.
C12_EachMissingRequiredNamed ==
    bp.phase = "built"
        => \A s \in MissingRequired(bp.format, bp.metadata) :
             bp.result = Err(MissingTag(SlotAt(bp.format, s).tag.name))

\* C12 (amended): build_path fails with the error of the first placeholder,
\* in template order, that does not resolve: MissingTag naming the tag for
\* a Required placeholder, in a Dir or a File segment, and OptionalInDir
\* for an Optional one in a Dir segment; a MissingTag error always names a
\* tag that a Required placeholder of the template references and that the
\* record lacks.
C12_FirstFailingReported ==
    bp.phase = "built"
        => LET Reported(failing, missing) ==
                   /\ failing # {} => bp.result = Err(DirError(bp.format, failing))
                   /\ (~bp.result.ok /\ bp.result.err.kind = "MissingTag")
                        => \E s \in missing :
                             bp.result = Err(MissingTag(SlotAt(bp.format, s).tag.name))
           IN Reported(Failing(bp.format, bp.metadata),
                       MissingRequired(bp.format, bp.metadata))

\* a record without album and title built with a format that references
\* title in its File segment and album nowhere
C12_Witness ==
    /\ bp.phase = "built"
    /\ ~bp.metadata.album.some /\ ~bp.metadata.title.some /\ bp.metadata.artist.some
    /\ \A s \in AllSlots(bp.format) : SlotAt(bp.format, s).tag.name # "album"
    /\ \E s \in MissingRequired(bp.format, bp.metadata) :
         bp.format.fs_components[s[1]].kind = "File"
    /\ bp.result = Err(MissingTag("title"))

\* the format has only Required placeholders and the record has the tag of
\* each of them
AllRequiredPresent(format, metadata) ==
    \A s \in AllSlots(format) :
        ~SlotAt(format, s).optional /\ HasTag(metadata, SlotAt(format, s).tag.name)

\* C13 (as claimed): for a template with only Required placeholders and a
\* record that has every referenced tag, build_path returns the
\* concatenation of the literal fragments and the resolved values, with one
\* '/' after each Dir segment.
C13_RequiredOnlyConcatenates ==
    (bp.phase = "built" /\ AllRequiredPresent(bp.format, bp.metadata))
        => bp.result = Ok(ExpectedPath(bp.format, bp.metadata, bp.exfat_compat))

\* C13 (amended): the same, for a template whose File segment, if it has
\* one, contains a placeholder other than Ext.
C13_RequiredOnlyWithFileTag ==
    (bp.phase = "built" /\ AllRequiredPresent(bp.format, bp.metadata)
        /\ (HasFileSegment(bp.format) =>
               \E p \in PlaceholdersOf(FileSegment(bp.format)) : p.tag.name # "ext"))
        => bp.result = Ok(ExpectedPath(bp.format, bp.metadata, bp.exfat_compat))

\* "{artist}/{album}/{disc}.{track} - {title}.{ext}" on the complete record
C13_Witness ==
    /\ bp.phase = "built" /\ bp.src = FmtComplete /\ ~bp.exfat_compat
    /\ bp.metadata.artist.some /\ bp.metadata.album.some /\ bp.metadata.title.some
    /\ bp.result = Ok(<<"A", "_", "b", "/", "L", ":", "/", "1", ".", "1",
                        " ", "-", " ", "T", ".", "m", "p", "3">>)

------------------------------------------------------------------------------
(* Claims about parsing and serializing a format                            *)

\* C14 (as claimed): from_str returns a compiled format or the error
\* FailedToParse and nothing else, for every input text.
C14_ParsedOrFailedToParse ==
    bp.phase = "failed" => bp.result = Err(FailedToParse)

\* C15: for every format string that parses, serializing the compiled
\* format returns the string character for character.
C15_SerializeReturnsSource ==
    bp.text.some => bp.text.v = bp.src

\* "{disk:00}/{track:2} - {title}.{ext}" compiled to disc with width 0 in a
\* Dir segment, and written out
C15_Witness ==
    /\ bp.text.some /\ bp.src = FmtDiskWidth
    /\ bp.format.fs_components[1] =
         FsDir(<<BasicPlaceholder(Required(Tag("disc", 0)))>>)
    /\ bp.text.v = FmtDiskWidth

------------------------------------------------------------------------------
(* Claims about sanitization and leading zeros                              *)

\* the number of slashes of a text
Slashes(text) == Cardinality({i \in 1..Len(text) : text[i] = "/"})

\* the number of Dir segments of a format
DirSegments(format) ==
    Cardinality({k \in 1..Len(format.fs_components) :
                    format.fs_components[k].kind = "Dir"})

\* C16: in every path that build_path returns, each '/' of a resolved value
\* is replaced by '_' whatever the exfat flag, so the path has as many '/'
\* as the template has Dir segments, and the characters " * : < > \ ? | of
\* a resolved value are replaced by '_' if and only if exfat_compat is set:
\* the path is the concatenation of the literals and of the values
\* sanitized in that way.
C16_ValuesSanitized ==
    (bp.phase = "built" /\ bp.result.ok)
        => /\ Slashes(bp.result.v) = DirSegments(bp.format)
           /\ bp.result.v = ExpectedPath(bp.format, bp.metadata, bp.exfat_compat)

\* artist "A/b" and album "L:" built without exfat_compat: the slash is
\* replaced, the colon is kept
C16_Witness ==
    /\ bp.phase = "built" /\ bp.src = FmtDefault /\ ~bp.exfat_compat
    /\ bp.metadata.artist = Some(<<"A", "/", "b">>)
    /\ bp.metadata.album = Some(<<"L", ":">>)
    /\ bp.result = Ok(<<"A", "_", "b", "/", "L", ":", "/", "1", " ", "-", " ", "T", ".", "m", "p", "3">>)

\* the number of a record of SpecZeros
NumberOf(metadata) == IF metadata.disc.some THEN metadata.disc.v ELSE metadata.track.v

\* text is digits left-padded with zeros to the length max(w, Len(digits))
PaddedTo(text, digits, w) ==
    /\ Len(text) = Max(w, Len(digits))
    /\ \A i \in 1..Len(text) :
         IF i <= Len(text) - Len(digits) THEN text[i] = "0"
         ELSE text[i] = digits[i - (Len(text) - Len(digits))]
    /\ (w = 0 \/ Len(digits) >= w) => text = digits

\* the text denotes the number: after its leading zeros come the digits of
\* the number, or it is all zeros and the number is 0
Denotes(text, v) ==
    LET Significant(nonzero) ==
            IF nonzero = {} THEN text # <<>> /\ v = 0
            ELSE v > 0 /\ DecValue(SeqDrop(text,
                              (CHOOSE i \in nonzero : \A j \in nonzero : i <= j) - 1)) = v
    IN Significant({i \in 1..Len(text) : text[i] # "0"})

\* C17: for a width w and a number v, disc and track are rendered as the
\* decimal digits of v left-padded with '0' to the length max(w, number of
\* digits of v); with width 0, or when v has at least w digits, the digits
\* are unchanged; the rendered text denotes v.
C17_LeadingZeros ==
    bp.phase = "built"
        => \A ident \in NumberTags, w \in Widths :
             bp.src = WidthFormat(ident, w)
                => /\ bp.result.ok
                   /\ PaddedTo(bp.result.v, DecStr(NumberOf(bp.metadata)), w)
                   /\ Denotes(bp.result.v, NumberOf(bp.metadata))

\* track 1 with width 2 rendered "01", the example of the specification
C17_Witness ==
    /\ bp.phase = "built"
    /\ bp.src = WidthFormat(<<"t", "r", "a", "c", "k">>, 2)
    /\ bp.metadata.track = Some(1)
    /\ bp.result = Ok(<<"0", "1">>)

\* C19: the watch loop never returns: whatever events arrive and whatever
\* error the sort of one event ends with (tag extraction, build, rename) and
\* whatever path is recorded in the ignore set, the loop is running after
\* the event, ready for the next one.
C19_LoopNeverReturns == watch.phase = "loop"

\* an event on a tagged file was handled, the sort failed with an I/O error
\* (creating the directories or renaming), the file is where it was, and
\* the loop runs
C19_Witness ==
    /\ watch.phase = "loop"
    /\ watch.last.handled /\ watch.last.how = "sort_file"
    /\ watch.last.res = Err(IoError)
    /\ is_file(tree, watch.last.path) /\ tree.files[watch.last.path].md.ok

\* the configured library roots
LibraryRoots(config) ==
    UNION {config.libraries[n].folders : n \in DOMAIN config.libraries}

\* the library roots that contain the path, the path itself included
RootsAbove(config, path) ==
    {r \in LibraryRoots(config) : starts_with(path, r)}

\* the deepest of a non-empty set of roots of one path
Deepest(above) == CHOOSE r \in above : \A q \in above : starts_with(r, q)

\* the library a root belongs to
LibraryOf(config, r) ==
    config.libraries[CHOOSE n \in DOMAIN config.libraries :
                        r \in config.libraries[n].folders]

\* the file at dest is where the library's format and exfat flag put it,
\* relative to the root
SortedBy(fs, root, library, dest) ==
    /\ is_file(fs, dest)
    /\ fs.files[dest].md.ok
    /\ LET Built(b) == b.ok /\ join(root, PathBuf(b.v)) = dest
       IN Built(build_path(library.format, fs.files[dest].md.v,
                           library.exfat_compat = Some(TRUE)))

\* C20: an event that is not ignored, on a path P, is sorted with the
\* root, the format and the exfat flag of the deepest library root that
\* contains P (P included), and the destination is relative to that root;
\* when no root contains P the event is discarded.
C20_DeepestRootSorts ==
    (watch.last.handled /\ watch.last.how # "ignored")
        => LET Sorted(root) ==
                   /\ watch.last.how \in {"sort_file", "sort_folder"}
                   /\ (watch.last.how = "sort_file" /\ watch.last.res.ok)
                        => SortedBy(tree, root, LibraryOf(watch.self.config, root),
                                    join(root, watch.last.res.v))
                   /\ watch.last.how = "sort_folder"
                        => \A i \in 1..Len(watch.last.res.v.new_paths) :
                             SortedBy(tree, root, LibraryOf(watch.self.config, root),
                                      join(root, watch.last.res.v.new_paths[i]))
               Above(above) ==
                   IF above = {} THEN watch.last.how = "no root"
                   ELSE Sorted(Deepest(above))
           IN Above(RootsAbove(watch.self.config, watch.last.path))

\* with a library on /m and another on /m/d, a file put at /m/d/x with the
\* title "T:" is sorted by the inner library: to /m/d/T_.mp3
C20_Witness ==
    /\ watch.last.handled /\ watch.last.how = "sort_file"
    /\ watch.last.path = SubRoot \o << <<"x">> >>
    /\ LibraryRoots(watch.self.config) = {Root, SubRoot}
    /\ watch.last.res = Ok(<< <<"T", "_", ".", "m", "p", "3">> >>)
    /\ is_file(tree, SubRoot \o << <<"T", "_", ".", "m", "p", "3">> >>)

\* the loop takes the event at the head of the channel in this step
LoopTakesEvent ==
    /\ watch.phase = "loop" /\ watch.rx # <<>>
    /\ watch'.drops = watch.drops
    /\ watch' # watch

\* C21: a Rescan, an event of a kind other than Create and Rename, and a
\* Create or Rename whose path has no library root among its ancestors
\* leave the watcher and the filesystem as they are: the ignore set is not
\* modified, no sort is run and nothing is notified.
C21_OtherEventsChangeNothing ==
    [][(LoopTakesEvent
          /\ (Head(watch.rx).kind \notin {"Create", "Rename"}
                \/ RootsAbove(watch.self.config, Head(watch.rx).path) = {}))
        => /\ tree' = tree
           /\ watch'.self = watch.self
           /\ watch'.rx = Tail(watch.rx)
           /\ (watch'.last = watch.last \/ watch'.last.how = "no root")]_vars

\* a Create for a file that lies outside the only library was discarded,
\* the file is where it was put
C21_Witness ==
    /\ watch.last.handled /\ watch.last.how = "no root"
    /\ LibraryRoots(watch.self.config) = {SubRoot}
    /\ is_file(tree, watch.last.path)
    /\ watch.self.ignore = {}

\* C23 (as claimed): every path that build_path returns is relative and
\* has a final file name: it is not empty, does not begin with '/' and does
\* not end with '/', for every format that parses.
C23_BuiltPathRelative ==
    (bp.phase = "built" /\ bp.result.ok)
        => /\ bp.result.v # <<>>
           /\ bp.result.v[1] # "/"
           /\ bp.result.v[Len(bp.result.v)] # "/"

------------------------------------------------------------------------------
(* Claims about the ignore set                                              *)

\* the loop takes a Create or a Rename in this step and swallows it
LoopSwallowsEvent ==
    /\ LoopTakesEvent
    /\ Head(watch.rx).kind \in {"Create", "Rename"}
    /\ watch'.last.how = "ignored"

\* C24 (as claimed): an event that is swallowed removes from the ignore set
\* the entry that made its path match, so that the set strictly shrinks.
C24_SwallowShrinksIgnoreSet ==
    [][LoopSwallowsEvent
        => /\ watch'.self.ignore \subseteq watch.self.ignore
           /\ watch'.self.ignore # watch.self.ignore]_vars

\* the path has the prefix, by whole components
HasPrefix(path, prefix) ==
    Len(prefix) <= Len(path) /\ SubSeq(path, 1, Len(prefix)) = prefix

\* the path, resolved against the working directory, is a directory
ExistingDirectory(fs, cwd, path) ==
    path # <<>>
    /\ (IF path[1] = RootDir THEN path ELSE cwd \o path) \in fs.dirs

\* the path, resolved against the working directory, is a regular file
ExistingFile(fs, cwd, path) ==
    path # <<>>
    /\ (IF path[1] = RootDir THEN path ELSE cwd \o path) \in DOMAIN fs.files

\* C25 (as claimed): is_ignored holds of P exactly when P is an existing
\* regular file that is in the ignore set, or P is not a regular file and
\* some entry of the set, a file or a directory, has P as a prefix.
C25_IgnoredByAnyEntryBelow ==
    watch.phase = "answered"
        => (watch.answer
              <=> IF ExistingFile(tree, watch.cwd, watch.path)
                  THEN watch.path \in watch.ignore
                  ELSE \E e \in watch.ignore : HasPrefix(e, watch.path))

\* C25 (amended): is_ignored holds of P exactly when P is an existing
\* regular file that is in the ignore set, or P is not a regular file and
\* some entry of the set that is an existing directory has P as a prefix;
\* a path that is neither in the set nor a prefix of an entry is never
\* ignored.
C25_IgnoredByDirectoryBelow ==
    watch.phase = "answered"
        => /\ watch.answer
                <=> IF ExistingFile(tree, watch.cwd, watch.path)
                    THEN watch.path \in watch.ignore
                    ELSE \E e \in watch.ignore :
                            /\ ExistingDirectory(tree, watch.cwd, e)
                            /\ HasPrefix(e, watch.path)
           /\ (\A e \in watch.ignore : ~HasPrefix(e, watch.path)) => ~watch.answer

\* asked about the directory /m/A while the set holds the file
\* /m/A/T.mp3 and no directory at or below /m/A: not ignored
C25_Witness ==
    /\ watch.phase = "answered"
    /\ watch.path = Root \o << <<"A">> >>
    /\ is_dir(tree, watch.path)
    /\ watch.ignore = {Root \o << <<"A">>, <<"T", ".", "m", "p", "3">> >>}
    /\ is_file(tree, Root \o << <<"A">>, <<"T", ".", "m", "p", "3">> >>)
    /\ ~watch.answer

\* the loop takes a Create or a Rename in this step and sorts for it
LoopSortsEvent ==
    /\ LoopTakesEvent
    /\ Head(watch.rx).kind \in {"Create", "Rename"}
    /\ watch'.last.how \in {"sort_file", "sort_folder"}

\* the relative or absolute paths that the sort of this step returned
ReturnedPaths ==
    IF watch'.last.how = "sort_file"
    THEN (IF watch'.last.res.ok THEN {watch'.last.res.v} ELSE {})
    ELSE {watch'.last.res.v.new_paths[i] :
             i \in 1..Len(watch'.last.res.v.new_paths)}

\* C26 (as claimed): after a sort for an event, the ignore set holds, for
\* every file the sort renamed, the destination and the destination's
\* parent unless that is the library root; a library root is never in the
\* set; a sort that renamed nothing adds nothing.
C26_DestinationsIgnored ==
    [][LoopSortsEvent
        => LET Recorded(root, rels) ==
                   /\ \A rel \in rels :
                        /\ join(root, rel) \in watch'.self.ignore
                        /\ parent(join(root, rel)).v # root
                             => parent(join(root, rel)).v \in watch'.self.ignore
                   /\ LibraryRoots(watch.self.config) \cap watch'.self.ignore = {}
                   /\ rels = {} => watch'.self.ignore = watch.self.ignore
           IN Recorded(Deepest(RootsAbove(watch.self.config, Head(watch.rx).path)),
                       ReturnedPaths)]_vars

\* C27 (as claimed): the ignore set keeps no stale entry: once the
\* notifications for the paths that the sorts created are consumed, the
\* channel being empty, the ignore set is empty again.
C27_IgnoreSetDrains ==
    (watch.phase = "loop" /\ watch.rx = <<>>) => watch.self.ignore = {}

------------------------------------------------------------------------------
(* Claims about collisions, termination and removal in sort_folder          *)

\* the destination of a file under the format of SpecSort, when its tags
\* are read and the path is built
DestinationOf(fs, file) ==
    LET Built(b) == IF b.ok THEN Some(join(Root, PathBuf(b.v))) ELSE None
        Read(md) == IF md.ok
                    THEN Built(build_path(SortFormat, md.v, FALSE))
                    ELSE None
    IN Read(fs.files[file].md)

\* the identities of the files of a tree
IdsOf(fs) == {fs.files[p].id : p \in DOMAIN fs.files}

\* the file popped resolves to a destination where another file lies
Collides ==
    /\ pc = "loop" /\ stack # <<>> /\ is_file(tree, Top) /\ ~opts.dryrun
    /\ LET At(dest) == dest.some /\ dest.v # Top /\ is_file(tree, dest.v)
       IN At(DestinationOf(tree, Top))

\* C22: when a file resolves to the destination where another file already
\* lies, no error is raised and nothing is detected: the rename is counted
\* as a success, the destination holds the file renamed last, and the file
\* that was there exists at no path any more.
C22_LastRenameWins ==
    [][Collides
        => LET Won(dest, lost) ==
                   /\ sreport'.success = sreport.success + 1
                   /\ sreport'.total = sreport.total + 1
                   /\ is_file(tree', dest) /\ tree'.files[dest] = tree.files[Top]
                   /\ ~is_file(tree', Top)
                   /\ lost \notin IdsOf(tree')
                   /\ tree'.dirs = tree.dirs
           IN Won(DestinationOf(tree, Top).v,
                  tree.files[DestinationOf(tree, Top).v].id)]_vars

\* two files of the start directory, both renamed in this run to the one
\* destination: both counted, one file left, the one renamed last
C22_Witness ==
    /\ hist.run = 1 /\ hist.last.called /\ hist.last.res.ok
    /\ DOMAIN hist.fs0.files = {Root \o << <<"x">> >>, Root \o << <<"y">> >>}
    /\ hist.attempts[1] = 1 /\ hist.attempts[2] = 1
    /\ sreport.success = 2 /\ sreport.total = 2
    /\ DOMAIN tree.files = {Root \o << <<"A">>, <<"T", ".", "m", "p", "3">> >>}
    /\ IdsOf(tree) = {hist.last.id}

\* C28: sort_folder terminates on a directory that exists when it is called:
\* no path is pushed on the stack twice, every path pushed existed at some
\* point of the traversal, and the iterations done plus the paths still on
\* the stack are exactly the paths pushed, so the iterations never exceed
\* the number of paths that existed at some point (the destinations the
\* traversal created among them).
C28_EachPathPushedOnce ==
    (hist.run > 0 /\ start \in hist.seen) =>
        /\ ~hist.repeated
        /\ hist.pushed \subseteq hist.seen
        /\ hist.iters + Len(stack) = Cardinality(hist.pushed)
        /\ hist.iters <= Cardinality(hist.seen)

\* a traversal that ended after it sorted a file, then met the file again at
\* the destination it had created and sorted it once more
C28_Witness ==
    /\ hist.run = 1 /\ pc = "done" /\ stack = <<>>
    /\ \E i \in 1..Len(Positions) : hist.attempts[i] = 2
    /\ hist.iters > Cardinality({p \in PathsOf(hist.fs0) : HasPrefix(p, start)})

\* the files of the subtree sorted, as they lay when the run began
FilesSorted == {p \in DOMAIN hist.fs0.files : starts_with(p, start)}

\* no two files of the subtree resolve to the same destination
DistinctDestinations ==
    \A p, q \in FilesSorted :
        (p # q /\ DestinationOf(hist.fs0, p).some)
            => DestinationOf(hist.fs0, p) # DestinationOf(hist.fs0, q)

\* the run has returned, and the host refused no removal during it
FirstRunDone == hist.run = 1 /\ pc = "done" /\ hist.refused = {}

NoDestinationOccupied ==
    \A p, q \in FilesSorted :
        (p # q /\ DestinationOf(hist.fs0, p).some)
            => DestinationOf(hist.fs0, p).v # q

Deleted == tree.dirs \ tree'.dirs

\* C30: sort_folder deletes a directory only when remove_empty is set, the
\* directory is the one just popped and it has no entry at that moment (so
\* with remove_empty unset nothing is deleted, and nothing that holds a file
\* or a subdirectory is deleted, the start directory and the library root
\* included); when the removal fails the tree is as it was, nothing is
\* counted, and the loop goes on with the rest of the stack.
C30_OnlyEmptyDeletedWhenAsked ==
    [][/\ (pc = "loop" /\ Deleted # {})
            => /\ opts.remove_empty
               /\ Deleted = {Top}
               /\ read_dir(tree, Top) = {}
               /\ DOMAIN tree'.files = DOMAIN tree.files
       /\ (pc = "loop" /\ hist'.refused # hist.refused)
            => /\ tree' = tree /\ sreport' = sreport /\ pc' = "loop"
               /\ stack' = SubSeq(stack, 1, Len(stack) - 1)]_vars

\* a run on the library root that ended after the host refused to remove
\* the empty directory A, the empty directory e was removed, and the file was
\* sorted into A
C30_Witness ==
    /\ hist.run = 1 /\ pc = "done" /\ start = Root /\ opts.remove_empty
    /\ hist.refused = {Root \o << <<"A">> >>}
    /\ hist.removed = {Root \o << <<"e">> >>}
    /\ DOMAIN hist.fs0.files = {Root \o << <<"x">> >>}
    /\ DOMAIN tree.files = {Root \o << <<"A">>, <<"T", ".", "m", "p", "3">> >>}
    /\ tree.dirs = {<<RootDir>>, Root, Root \o << <<"A">> >>}

====
